---- MODULE Spec2Model ----
(***************************************************************************)
(* Model of the UV export / crop / remap add-on (ImageAutoCropper).        *)
(*                                                                         *)
(* Three generations of the operator uv.export_uv_info live in src/:       *)
(*   Export_Uvs_datav10.py  metadata only                                  *)
(*   export_uv_info.py      metadata + sequential crop + per-face remap    *)
(*   export_uv_infoV1.py    islands, thread pool, remap, fill, batch       *)
(* Definitions named ...V1 follow export_uv_infoV1.py, definitions named   *)
(* ...Legacy follow export_uv_info.py.                                     *)
(*                                                                         *)
(* Python floats are modelled as exact rationals <<n, d>>; the inputs are  *)
(* multiples of 1/4, for which the products with small integers are exact  *)
(* in binary floating point as well.                                       *)
(***************************************************************************)
EXTENDS Integers, Sequences, FiniteSets, TLC

VARIABLES
    pc,             \* position of the modelled run
    uv_pt,          \* Coordinate Converter input: one UV point <<u, v>>
    img_size,       \* Coordinate Converter input: <<w, h>>
    px_bounds,      \* Coordinate Converter output: [v1 |-> box, legacy |-> box]
    crop_args,      \* crop_task input: [name, vid, bounds, file]
    crop_result,    \* crop_task output: <<>> (None) or <<name, vid, out_path, box>>
    pairs,          \* Variant Deduplicator input: sequence of <<image_name, box>>
    variant_ids,    \* Variant Deduplicator output: [v1 |-> Seq(Nat), legacy |-> Seq(Nat)]
    mesh,           \* bm: the set of edges, each edge the set of its link_faces
    face_i,         \* position of "for face in bm.faces"
    visited,        \* visited
    stack,          \* stack
    group,          \* group
    groups,         \* the groups completed so far, in order
    props,          \* self.crop_images, self.crop_per_border, self.remap_model
    files,          \* the source file behind each image path
    faces,          \* bm.faces: face.index -> [material_index, uvs]
    faces0,         \* the faces as they were when the operator was invoked
    materials,      \* obj.data.materials: sequence of [name, image]
    global_variants,\* global_variants: image name -> list of (bounds, path, vid)
    global_sizes,   \* global_sizes: image name -> (w, h)
    assignments,    \* face_map[obj.name]: list of (face index, image name, bounds)
    tasks,          \* tasks handed to executor.map
    task_state,     \* per task: "queued", "running" or "done"
    results,        \* per task: the value crop_task returned
    merged,         \* number of results the control thread has consumed
    out_files,      \* file names written into self.directory by crop tasks
    image_map,      \* image_map: (name, vid) -> out_path
    crop_bounds,    \* crop_bounds: (name, vid) -> clamped box
    mat_index_map,  \* mat_index_map: material name -> slot index
    remap_i,        \* position of "for face_idx, name, bounds in assignments"
    written,        \* the four metadata files, each a sequence of lines
    walk,           \* the files os.walk yields, in order, each by its kind
    file_i,         \* position of the batch loop in walk
    attempted,      \* positions whose import was started
    processed,      \* positions processed through export and cleanup
    norm_in,        \* re-normalization input: the UV loop of one face
    norm_out        \* re-normalization output: [face |-> loop, fill |-> loop]

vars == <<pc, uv_pt, img_size, px_bounds, crop_args, crop_result, pairs, variant_ids,
          mesh, face_i, visited, stack, group, groups,
          props, files, faces, faces0, materials, global_variants, global_sizes,
          assignments, tasks, task_state, results, merged, out_files, image_map,
          crop_bounds, mat_index_map, remap_i, written,
          walk, file_i, attempted, processed, norm_in, norm_out>>

batchVars == <<walk, file_i, attempted, processed>>
convVars  == <<uv_pt, img_size, px_bounds>>
cropVars  == <<crop_args, crop_result>>
dedupVars == <<pairs, variant_ids>>
normVars  == <<norm_in, norm_out>>
scanVars  == <<face_i, visited, stack, group, groups>>
\* what a run of the export operator leaves alone
otherVars == <<convVars, cropVars, dedupVars, scanVars, batchVars, normVars>>
fillVars  == <<mesh, face_i, visited, stack, group, groups>>
inputVars == <<props, files, faces0>>
poolVars  == <<tasks, task_state, results, merged, out_files, image_map, crop_bounds>>
pipeVars  == <<props, files, faces, faces0, materials, global_variants, global_sizes,
               assignments, tasks, task_state, results, merged, out_files, image_map,
               crop_bounds, mat_index_map, remap_i, written>>

----------------------------------------------------------------------------
(* Bounds                                                                  *)

UVSteps  == 9      \* UV coordinates range over n/4 for n in -UVSteps..UVSteps
MaxFiles == 3      \* files found by the directory walk of the batch operator
MaxPairs == 3      \* longest (image_name, box) input sequence of the deduplicator
LoopLen  == 3      \* loops of the face handed to the re-normalization
MeshFaces == 4     \* faces of the meshes the island grouper is run on
LiveFaces == 3     \* faces that carry edges in the termination check
NumFaces == 2      \* faces of the mesh the export operator is run on

----------------------------------------------------------------------------
(* Integers, rationals, ordered dictionaries                                *)

Max(a, b) == IF a >= b THEN a ELSE b
Min(a, b) == IF a <= b THEN a ELSE b
Abs(n)    == IF n < 0 THEN -n ELSE n

RECURSIVE Gcd(_, _)
Gcd(a, b) == IF b = 0 THEN a ELSE Gcd(b, a % b)

\* a float value n/d, kept in lowest terms with d > 0
Rat(n, d) ==
    LET s == IF d < 0 THEN -1 ELSE 1
        g == Gcd(Abs(n), Abs(d))
    IN  <<(s * n) \div g, (s * d) \div g>>

RInt(k)    == <<k, 1>>
RSub(a, b) == Rat(a[1] * b[2] - b[1] * a[2], a[2] * b[2])
RMul(a, b) == Rat(a[1] * b[1], a[2] * b[2])
RDiv(a, b) == Rat(a[1] * b[2], a[2] * b[1])
RLe(a, b)  == a[1] * b[2] <= b[1] * a[2]
RLt(a, b)  == a[1] * b[2] < b[1] * a[2]
RMin(S)    == CHOOSE x \in S : \A y \in S : RLe(x, y)
RMax(S)    == CHOOSE x \in S : \A y \in S : RLe(y, x)

\* a rounding that goes down also below zero, as math.floor would
IntFloor(r) == r[1] \div r[2]

\* Python int(float): truncation toward zero
IntTrunc(r) == IF r[1] >= 0 THEN r[1] \div r[2] ELSE -((-r[1]) \div r[2])

Floor(r) == r[1] \div r[2]
Ceil(r)  == -((-r[1]) \div r[2])

Range(s) == {s[i] : i \in 1..Len(s)}

\* f"{name}_variant{vid}"
VariantName(name, vid) == name \o "_variant" \o ToString(vid)

----------------------------------------------------------------------------
(* 4.1 Coordinate Converter                                                *)

\* export_uv_infoV1.py: truncate each extreme of the scaled points, then flip
BoundsOfCoords(coords, h) ==
    LET xs   == {coords[i][1] : i \in 1..Len(coords)}
        ys   == {coords[i][2] : i \in 1..Len(coords)}
        xmin == IntTrunc(RMin(xs))
        xmax == IntTrunc(RMax(xs))
        ymin == IntTrunc(RMin(ys))
        ymax == IntTrunc(RMax(ys))
    IN  <<xmin, h - ymax, xmax, h - ymin>>

\* [(uv.x * w, uv.y * h) for loop in face.loops]
ScaledCoords(uvs, w, h) ==
    [i \in 1..Len(uvs) |-> <<RMul(uvs[i][1], RInt(w)), RMul(uvs[i][2], RInt(h))>>]

PixelBoundsV1(uvs, w, h) == BoundsOfCoords(ScaledCoords(uvs, w, h), h)

\* export_uv_info.py / Export_Uvs_datav10.py: convert_coords
convert_coords(coords, h) ==
    <<coords[1], RSub(RInt(h), coords[4]), coords[3], RSub(RInt(h), coords[2])>>

\* export_uv_info.py: scale, flip the float extremes, then truncate
PixelBoundsLegacy(uvs, w, h) ==
    LET xs == {RMul(uvs[i][1], RInt(w)) : i \in 1..Len(uvs)}
        ys == {RMul(uvs[i][2], RInt(h)) : i \in 1..Len(uvs)}
        c  == convert_coords(<<RMin(xs), RMin(ys), RMax(xs), RMax(ys)>>, h)
    IN  <<IntTrunc(c[1]), IntTrunc(c[2]), IntTrunc(c[3]), IntTrunc(c[4])>>

UVCoords == {Rat(n, 4) : n \in (-UVSteps)..UVSteps}
ConvDims == {1, 2, 3, 8}

NoBounds == [v1 |-> <<>>, legacy |-> <<>>]

ConvInit ==
    /\ pc = "conv_in"
    /\ uv_pt \in UVCoords \X UVCoords
    /\ img_size \in ConvDims \X ConvDims
    /\ px_bounds = NoBounds

Convert ==
    /\ pc = "conv_in"
    /\ px_bounds' = [v1     |-> PixelBoundsV1(<<uv_pt>>, img_size[1], img_size[2]),
                     legacy |-> PixelBoundsLegacy(<<uv_pt>>, img_size[1], img_size[2])]
    /\ pc' = "conv_out"
    /\ UNCHANGED <<uv_pt, img_size, cropVars, dedupVars, fillVars, pipeVars, batchVars, normVars>>

----------------------------------------------------------------------------
(* 4.4 Crop Executor: one crop task                                        *)

None == <<>>

\* the source file as os.path.exists and PIL.Image.open see it
FileMissing == [exists |-> FALSE, readable |-> FALSE, w |-> 0, h |-> 0]
FileCorrupt == [exists |-> TRUE, readable |-> FALSE, w |-> 0, h |-> 0]
FileImage(w, h) == [exists |-> TRUE, readable |-> TRUE, w |-> w, h |-> h]

\* the clamp without the cap of x1 and y1 at the image size
ClampBoxNoCap(bounds, w, h) ==
    LET x0 == Max(0, Min(bounds[1], w - 1))
        y0 == Max(0, Min(bounds[2], h - 1))
        x1 == Max(x0 + 1, bounds[3])
        y1 == Max(y0 + 1, bounds[4])
    IN  <<x0, y0, x1, y1>>

ClampBox(bounds, w, h) ==
    LET x0 == Max(0, Min(bounds[1], w - 1))
        y0 == Max(0, Min(bounds[2], h - 1))
        x1 == Max(x0 + 1, Min(bounds[3], w))
        y1 == Max(y0 + 1, Min(bounds[4], h))
    IN  <<x0, y0, x1, y1>>

crop_task(name, file, vid, bounds) ==
    IF ~file.exists THEN None
    ELSE IF ~file.readable THEN None
    ELSE LET b == ClampBox(bounds, file.w, file.h)
         IN  IF b[3] <= b[1] \/ b[4] <= b[2]
             THEN None
             ELSE <<name, vid, VariantName(name, vid) \o ".png", b>>

CropCoords == {-5, 0, 3, 7, 8, 10, 100, 110}
CropDims   == {1, 2, 8}
CropFiles  == {FileMissing, FileCorrupt} \cup {FileImage(w, h) : w \in CropDims, h \in CropDims}

NoCropArgs == [name |-> "a", vid |-> 1, bounds |-> <<0, 0, 0, 0>>, file |-> FileMissing]

CropInit ==
    /\ pc = "crop_in"
    /\ crop_args \in [name : {"a"}, vid : {1},
                      bounds : CropCoords \X CropCoords \X CropCoords \X CropCoords,
                      file : CropFiles]
    /\ crop_result = None

RunCropTask ==
    /\ pc = "crop_in"
    /\ crop_result' = crop_task(crop_args.name, crop_args.file, crop_args.vid, crop_args.bounds)
    /\ pc' = "crop_out"
    /\ UNCHANGED <<crop_args, convVars, dedupVars, fillVars, pipeVars, batchVars, normVars>>

----------------------------------------------------------------------------
(* 4.3 Variant Deduplicator                                                *)

\* bpy.path.abspath(img.filepath)
ImagePath(name) == "//" \o name

\* global_variants.setdefault(name, []).append((bounds, path, None)), over the
\* whole input; a dict is a sequence of [k, v] in insertion order
DictHas(d, k) == \E i \in 1..Len(d) : d[i].k = k
DictGet(d, k) == d[CHOOSE i \in 1..Len(d) : d[i].k = k].v
DictSet(d, k, v) ==
    IF DictHas(d, k)
    THEN [i \in 1..Len(d) |-> IF d[i].k = k THEN [k |-> k, v |-> v] ELSE d[i]]
    ELSE Append(d, [k |-> k, v |-> v])

\* global_variants.setdefault(name, []).append((bounds, path, None))
AppendVariant(gv, name, bounds) ==
    LET old == IF DictHas(gv, name) THEN DictGet(gv, name) ELSE <<>>
    IN  DictSet(gv, name, Append(old, <<bounds, ImagePath(name), 0>>))

RECURSIVE CollectVariants(_, _)
CollectVariants(gv, ps) ==
    IF ps = <<>> THEN gv
    ELSE CollectVariants(AppendVariant(gv, Head(ps)[1], Head(ps)[2]), Tail(ps))

\* the inner loop numbering the variants from 0
RECURSIVE DedupListZeroBased(_, _)
DedupListZeroBased(unique, lst) ==
    IF lst = <<>> THEN unique
    ELSE LET bounds == Head(lst)[1]
             seen   == {unique[i][1] : i \in 1..Len(unique)}
         IN  IF bounds \notin seen
             THEN DedupListZeroBased(Append(unique, <<bounds, Head(lst)[2], Len(unique)>>),
                                     Tail(lst))
             ELSE DedupListZeroBased(unique, Tail(lst))

\* export_uv_infoV1.py: the inner loop "for bounds, path, _ in lst"
RECURSIVE DedupList(_, _)
DedupList(unique, lst) ==
    IF lst = <<>> THEN unique
    ELSE LET bounds == Head(lst)[1]
             seen   == {unique[i][1] : i \in 1..Len(unique)}
         IN  IF bounds \notin seen
             THEN DedupList(Append(unique, <<bounds, Head(lst)[2], Len(unique) + 1>>), Tail(lst))
             ELSE DedupList(unique, Tail(lst))

\* the dedup pass left out: every gathered entry stays, unnumbered
DedupVariantsSkipped(gv) == gv

\* export_uv_infoV1.py: "for name, lst in global_variants.items()"
DedupVariants(gv) == [i \in 1..Len(gv) |-> [k |-> gv[i].k, v |-> DedupList(<<>>, gv[i].v)]]

\* export_uv_infoV1.py: next(v for (bnds, _, v) in global_variants[name] if bnds == bounds)
VariantIdOf(gv, name, bounds) ==
    LET lst == DictGet(gv, name)
        i   == CHOOSE j \in 1..Len(lst) :
                   /\ lst[j][1] = bounds
                   /\ \A k \in 1..(j - 1) : lst[k][1] /= bounds
    IN  lst[i][3]

\* list.index(x) + 1
IndexOf(lst, x) == CHOOSE j \in 1..Len(lst) : lst[j] = x /\ \A k \in 1..(j - 1) : lst[k] /= x

\* export_uv_info.py: unique.setdefault(name, []); append if absent; index + 1
RECURSIVE DedupLegacy(_, _, _)
DedupLegacy(unique, ps, out) ==
    IF ps = <<>> THEN out
    ELSE LET name   == Head(ps)[1]
             bounds == Head(ps)[2]
             old    == IF DictHas(unique, name) THEN DictGet(unique, name) ELSE <<>>
             new    == IF bounds \notin Range(old) THEN Append(old, bounds) ELSE old
         IN  DedupLegacy(DictSet(unique, name, new), Tail(ps),
                         Append(out, IndexOf(new, bounds)))

DedupNames == {"a", "b"}
DedupBoxes == {<<0, 0, 4, 4>>, <<4, 0, 8, 4>>, <<0, 4, 4, 8>>}

SeqsUpTo(S, n) == UNION {[1..k -> S] : k \in 0..n}

NoIds == [v1 |-> <<>>, legacy |-> <<>>]

DedupInit ==
    /\ pc = "dedup_in"
    /\ pairs \in SeqsUpTo(DedupNames \X DedupBoxes, MaxPairs)
    /\ variant_ids = NoIds

RunDedup ==
    /\ pc = "dedup_in"
    /\ LET gv == DedupVariants(CollectVariants(<<>>, pairs))
       IN  variant_ids' =
               [v1     |-> [i \in 1..Len(pairs) |-> VariantIdOf(gv, pairs[i][1], pairs[i][2])],
                legacy |-> DedupLegacy(<<>>, pairs, <<>>)]
    /\ pc' = "dedup_out"
    /\ UNCHANGED <<pairs, convVars, cropVars, fillVars, pipeVars, batchVars, normVars>>


----------------------------------------------------------------------------
(* 4.2 Island Grouper: the flood fill of export_uv_infoV1.py               *)

\* the elements of a set of integers in ascending order
SortedSeq(S) ==
    [i \in 1..Cardinality(S) |-> CHOOSE x \in S : Cardinality({y \in S : y < x}) = i - 1]

\* the position of an edge in the mesh's edge order
EdgeCode(e) ==
    LET top == IF e = {} THEN 0 ELSE 1 + (CHOOSE x \in e : \A y \in e : y <= x)
        code[n \in 0..top] ==
            IF n = 0 THEN 0 ELSE code[n - 1] + (IF (n - 1) \in e THEN 2 ^ (n - 1) ELSE 0)
    IN  code[top]

\* f.edges: the edges of face f, in the mesh's edge order
EdgesInOrder(E) ==
    [i \in 1..Cardinality(E) |->
        CHOOSE x \in E : Cardinality({y \in E : EdgeCode(y) < EdgeCode(x)}) = i - 1]

FaceEdges(m, f) == EdgesInOrder({e \in m : f \in e})

\* the push loop leaving after the first edge of the face
PushLinkedFirstEdge(stk, edges, vis) ==
    IF edges = <<>> THEN stk
    ELSE stk \o SortedSeq(Head(edges) \ vis)

\* "for e in f.edges: for lf in e.link_faces: if lf.index not in visited:
\* stack.append(lf)"
PushLinked(stk, edges, vis) ==
    LET pushed[i \in 0..Len(edges)] ==
            IF i = 0 THEN stk ELSE pushed[i - 1] \o SortedSeq(edges[i] \ vis)
    IN  pushed[Len(edges)]

\* the iteration without "if f.index in visited: continue"
PopStepNoVisitedCheck(m, vis, stk, grp) ==
    LET f    == stk[Len(stk)]
        rest == SubSeq(stk, 1, Len(stk) - 1)
    IN  [visited |-> vis \cup {f},
         stack   |-> PushLinked(rest, FaceEdges(m, f), vis \cup {f}),
         group   |-> Append(grp, f)]

\* one iteration of "while stack"
PopStep(m, vis, stk, grp) ==
    LET f    == stk[Len(stk)]
        rest == SubSeq(stk, 1, Len(stk) - 1)
    IN  IF f \in vis
        THEN [visited |-> vis, stack |-> rest, group |-> grp]
        ELSE [visited |-> vis \cup {f},
              stack   |-> PushLinked(rest, FaceEdges(m, f), vis \cup {f}),
              group   |-> Append(grp, f)]

MeshFaceIds == 0..(MeshFaces - 1)
PairEdges   == {e \in SUBSET MeshFaceIds : Cardinality(e) = 2}
FanEdges    == {e \in SUBSET MeshFaceIds : Cardinality(e) >= 3}
\* any set of two-face edges, plus at most one edge shared by three or more faces
Meshes      == {P \cup F : P \in SUBSET PairEdges, F \in {{}} \cup {{e} : e \in FanEdges}}

FillInit ==
    /\ pc = "fill_scan"
    /\ mesh \in Meshes
    /\ face_i = 0
    /\ visited = {}
    /\ stack = <<>>
    /\ group = <<>>
    /\ groups = <<>>

\* the meshes whose edges lie among the first LiveFaces faces; the other
\* faces are isolated
LiveMeshes == {m \in Meshes : \A e \in m : e \subseteq 0..(LiveFaces - 1)}

FillInitLive ==
    /\ FillInit
    /\ mesh \in LiveMeshes

\* "for face in bm.faces: if face.index in visited: continue"
SkipVisitedFace ==
    /\ pc = "fill_scan"
    /\ face_i < MeshFaces
    /\ face_i \in visited
    /\ face_i' = face_i + 1
    /\ UNCHANGED <<pc, mesh, visited, stack, group, groups, convVars, cropVars, dedupVars, pipeVars, batchVars, normVars>>

\* "stack, group = [face], []"
StartGroup ==
    /\ pc = "fill_scan"
    /\ face_i < MeshFaces
    /\ face_i \notin visited
    /\ stack' = <<face_i>>
    /\ group' = <<>>
    /\ pc' = "fill_pop"
    /\ UNCHANGED <<mesh, face_i, visited, groups, convVars, cropVars, dedupVars, pipeVars, batchVars, normVars>>

PopFace ==
    /\ pc = "fill_pop"
    /\ stack /= <<>>
    /\ LET s == PopStep(mesh, visited, stack, group)
       IN  /\ visited' = s.visited
           /\ stack' = s.stack
           /\ group' = s.group
    /\ UNCHANGED <<pc, mesh, face_i, groups, convVars, cropVars, dedupVars, pipeVars, batchVars, normVars>>

\* the stack is empty: the group is complete
CloseGroup ==
    /\ pc = "fill_pop"
    /\ stack = <<>>
    /\ groups' = Append(groups, group)
    /\ face_i' = face_i + 1
    /\ pc' = "fill_scan"
    /\ UNCHANGED <<mesh, visited, stack, group, convVars, cropVars, dedupVars, pipeVars, batchVars, normVars>>

FinishScan ==
    /\ pc = "fill_scan"
    /\ face_i = MeshFaces
    /\ pc' = "fill_done"
    /\ UNCHANGED <<fillVars, convVars, cropVars, dedupVars, pipeVars, batchVars, normVars>>

\* the flood fill from one start face, run to the end of "while stack"
RECURSIVE FloodFrom(_, _, _, _)
FloodFrom(m, vis, stk, grp) ==
    IF stk = <<>> THEN [visited |-> vis, group |-> grp]
    ELSE LET s == PopStep(m, vis, stk, grp)
         IN  FloodFrom(m, s.visited, s.stack, s.group)

\* the groups of "for face in bm.faces" over faces i..n-1
RECURSIVE FloodGroups(_, _, _, _, _)
FloodGroups(m, n, i, vis, acc) ==
    IF i = n THEN acc
    ELSE IF i \in vis THEN FloodGroups(m, n, i + 1, vis, acc)
    ELSE LET r == FloodFrom(m, vis, <<i>>, <<>>)
         IN  FloodGroups(m, n, i + 1, r.visited, Append(acc, r.group))

----------------------------------------------------------------------------
(* ExportUVInfoOperator.execute of export_uv_infoV1.py, run on one         *)
(* selected mesh object that has a UV layer                                *)

MaxWorkers == 4

FaceIds    == 0..(NumFaces - 1)
ImageNames == {"a", "b"}
NoImage    == ""

\* img.size, also the size of the file behind the image when it exists
ImageSize(name) == IF name = "a" THEN <<8, 8>> ELSE <<1024, 128>>

\* the material slots of the object before the run: one textured material per
\* image and one material without an image texture node
InitialMaterials ==
    <<[name |-> "mat_a", image |-> "a"],
      [name |-> "mat_b", image |-> "b"],
      [name |-> "plain", image |-> NoImage]>>

Quad(u0, v0, u1, v1) == <<<<u0, v0>>, <<u1, v0>>, <<u1, v1>>, <<u0, v1>>>>
UVLoops ==
    {Quad(Rat(0, 4), Rat(0, 4), Rat(2, 4), Rat(1, 4)),
     Quad(Rat(2, 4), Rat(0, 4), Rat(4, 4), Rat(2, 4))}

PipeMeshes == SUBSET {e \in SUBSET FaceIds : Cardinality(e) = 2}

get_image_from_face(face, mats) ==
    IF face.material_index < Len(mats)
    THEN mats[face.material_index + 1].image
    ELSE NoImage

NoGather == [gv |-> <<>>, sizes |-> <<>>, asg |-> <<>>]

\* "Crop per face": for face in bm.faces
RECURSIVE GatherFaces(_, _, _, _)
GatherFaces(i, fs, mats, st) ==
    IF i = NumFaces THEN st
    ELSE LET img == get_image_from_face(fs[i], mats)
         IN  IF img = NoImage THEN GatherFaces(i + 1, fs, mats, st)
             ELSE LET sz     == ImageSize(img)
                      bounds == PixelBoundsV1(fs[i].uvs, sz[1], sz[2])
                  IN  GatherFaces(i + 1, fs, mats,
                          [gv    |-> AppendVariant(st.gv, img, bounds),
                           sizes |-> DictSet(st.sizes, img, sz),
                           asg   |-> Append(st.asg, <<i, img, bounds>>)])

\* "for f2 in group: for loop in f2.loops": img, w and h are overwritten by
\* every face that resolves an image
RECURSIVE ScanGroup(_, _, _, _)
ScanGroup(grp, fs, mats, acc) ==
    IF grp = <<>> THEN acc
    ELSE LET f2 == Head(grp)
             im == get_image_from_face(fs[f2], mats)
         IN  IF im = NoImage THEN ScanGroup(Tail(grp), fs, mats, acc)
             ELSE LET sz == ImageSize(im)
                  IN  ScanGroup(Tail(grp), fs, mats,
                          [img    |-> im,
                           h      |-> sz[2],
                           sizes  |-> DictSet(acc.sizes, im, sz),
                           coords |-> acc.coords \o ScaledCoords(fs[f2].uvs, sz[1], sz[2])])

\* "Crop per UV island": one bounds per group, broadcast to its faces
RECURSIVE GatherIslands(_, _, _, _)
GatherIslands(grps, fs, mats, st) ==
    IF grps = <<>> THEN st
    ELSE LET g  == Head(grps)
             sc == ScanGroup(g, fs, mats,
                       [img |-> NoImage, h |-> 0, sizes |-> st.sizes, coords |-> <<>>])
         IN  IF sc.coords = <<>> \/ sc.img = NoImage
             THEN GatherIslands(Tail(grps), fs, mats, [st EXCEPT !.sizes = sc.sizes])
             ELSE LET bounds == BoundsOfCoords(sc.coords, sc.h)
                  IN  GatherIslands(Tail(grps), fs, mats,
                          [gv    |-> AppendVariant(st.gv, sc.img, bounds),
                           sizes |-> sc.sizes,
                           asg   |-> st.asg \o [k \in 1..Len(g) |-> <<g[k], sc.img, bounds>>]])

NoWritten == [uv_coordinates |-> <<>>, image_names |-> <<>>,
              image_names_to_crop |-> <<>>, image_sizes |-> <<>>]

PipeInit ==
    /\ pc = "gather"
    /\ props \in [crop_images : BOOLEAN, crop_per_border : BOOLEAN, remap_model : BOOLEAN]
    /\ mesh \in (IF props.crop_per_border THEN PipeMeshes ELSE {{}})
    /\ files \in {f \in [ImageNames -> {FileMissing} \cup {FileImage(ImageSize(n)[1], ImageSize(n)[2]) : n \in ImageNames}] :
                     \A n \in ImageNames : f[n].exists => f[n] = FileImage(ImageSize(n)[1], ImageSize(n)[2])}
    /\ faces0 \in [FaceIds -> [material_index : 0..(Len(InitialMaterials) - 1), uvs : UVLoops]]
    /\ faces = faces0
    /\ materials = InitialMaterials
    /\ global_variants = <<>>
    /\ global_sizes = <<>>
    /\ assignments = <<>>
    /\ tasks = <<>>
    /\ task_state = <<>>
    /\ results = <<>>
    /\ merged = 0
    /\ out_files = {}
    /\ image_map = <<>>
    /\ crop_bounds = <<>>
    /\ mat_index_map = <<>>
    /\ remap_i = 0
    /\ written = NoWritten

\* "Gather UV bounds and image references"
Gather ==
    /\ pc = "gather"
    /\ LET st == IF props.crop_per_border
                 THEN GatherIslands(FloodGroups(mesh, NumFaces, 0, {}, <<>>), faces, materials, NoGather)
                 ELSE GatherFaces(0, faces, materials, NoGather)
       IN  /\ global_variants' = st.gv
           /\ global_sizes' = st.sizes
           /\ assignments' = st.asg
    /\ pc' = "dedup"
    /\ UNCHANGED <<otherVars, inputVars, mesh, faces, materials, poolVars, mat_index_map, remap_i, written>>

\* "Deduplicate UV variants"
Deduplicate ==
    /\ pc = "dedup"
    /\ global_variants' = DedupVariants(global_variants)
    /\ pc' = "crop"
    /\ UNCHANGED <<otherVars, inputVars, mesh, faces, materials, global_sizes, assignments, poolVars,
                   mat_index_map, remap_i, written>>

\* tasks = [(name, path, variant_id, bounds) for name, variants in ... for ... in variants]
RECURSIVE TaskList(_)
TaskList(gv) ==
    IF gv = <<>> THEN <<>>
    ELSE LET name == Head(gv).k
             vs   == Head(gv).v
         IN  [i \in 1..Len(vs) |-> <<name, vs[i][2], vs[i][3], vs[i][1]>>] \o TaskList(Tail(gv))

\* executor.map(crop_task, tasks): every task is submitted at once
SubmitTasks ==
    /\ pc = "crop"
    /\ IF props.crop_images \/ props.crop_per_border
       THEN /\ tasks' = TaskList(global_variants)
            /\ task_state' = [i \in 1..Len(tasks') |-> "queued"]
            /\ results' = [i \in 1..Len(tasks') |-> None]
            /\ pc' = "pool"
       ELSE /\ UNCHANGED <<tasks, task_state, results>>
            /\ pc' = "remap_setup"
    /\ UNCHANGED <<otherVars, inputVars, mesh, faces, materials, global_variants, global_sizes, assignments,
                   merged, out_files, image_map, crop_bounds, mat_index_map, remap_i, written>>

Running == {i \in 1..Len(tasks) : task_state[i] = "running"}

\* an idle worker takes the oldest queued task
StartTask ==
    /\ pc = "pool"
    /\ Cardinality(Running) < MaxWorkers
    /\ \E i \in 1..Len(tasks) :
           /\ task_state[i] = "queued"
           /\ \A j \in 1..(i - 1) : task_state[j] /= "queued"
           /\ task_state' = [task_state EXCEPT ![i] = "running"]
    /\ UNCHANGED <<pc, otherVars, inputVars, mesh, faces, materials, global_variants, global_sizes,
                   assignments, tasks, results, merged, out_files, image_map, crop_bounds,
                   mat_index_map, remap_i, written>>

\* a worker runs crop_task to its return
FinishTask ==
    /\ pc = "pool"
    /\ \E i \in Running :
           LET t == tasks[i]
               r == crop_task(t[1], files[t[1]], t[3], t[4])
           IN  /\ results' = [results EXCEPT ![i] = r]
               /\ out_files' = IF r = None THEN out_files ELSE out_files \cup {r[3]}
               /\ task_state' = [task_state EXCEPT ![i] = "done"]
    /\ UNCHANGED <<pc, otherVars, inputVars, mesh, faces, materials, global_variants, global_sizes,
                   assignments, tasks, merged, image_map, crop_bounds, mat_index_map, remap_i,
                   written>>

\* the merge loop leaving at the first failed task, as a "break" would
MergeResultBreak ==
    /\ pc = "pool"
    /\ merged < Len(tasks)
    /\ task_state[merged + 1] = "done"
    /\ LET r == results[merged + 1]
       IN  IF r /= None
           THEN /\ image_map' = DictSet(image_map, <<r[1], r[2]>>, r[3])
                /\ crop_bounds' = DictSet(crop_bounds, <<r[1], r[2]>>, r[4])
                /\ merged' = merged + 1
           ELSE /\ UNCHANGED <<image_map, crop_bounds>>
                /\ merged' = Len(tasks)
    /\ UNCHANGED <<pc, otherVars, inputVars, mesh, faces, materials, global_variants, global_sizes,
                   assignments, tasks, task_state, results, out_files, mat_index_map, remap_i,
                   written>>

\* "for result in executor.map(...)": the control thread takes the results in
\* task order, each as soon as its task is done
MergeResult ==
    /\ pc = "pool"
    /\ merged < Len(tasks)
    /\ task_state[merged + 1] = "done"
    /\ LET r == results[merged + 1]
       IN  IF r /= None
           THEN /\ image_map' = DictSet(image_map, <<r[1], r[2]>>, r[3])
                /\ crop_bounds' = DictSet(crop_bounds, <<r[1], r[2]>>, r[4])
           ELSE UNCHANGED <<image_map, crop_bounds>>
    /\ merged' = merged + 1
    /\ UNCHANGED <<pc, otherVars, inputVars, mesh, faces, materials, global_variants, global_sizes,
                   assignments, tasks, task_state, results, out_files, mat_index_map, remap_i,
                   written>>

\* leaving "with ThreadPoolExecutor(...)"
ClosePool ==
    /\ pc = "pool"
    /\ merged = Len(tasks)
    /\ pc' = "remap_setup"
    /\ UNCHANGED <<otherVars, inputVars, mesh, faces, materials, global_variants, global_sizes, assignments,
                   poolVars, mat_index_map, remap_i, written>>

HasMaterial(mats, name) == \E i \in 1..Len(mats) : mats[i].name = name

\* the slot added last, whatever the name
FindMaterialLast(mats, name) == Len(mats) - 1

\* obj.data.materials.find(name)
FindMaterial(mats, name) ==
    IF HasMaterial(mats, name)
    THEN (CHOOSE i \in 1..Len(mats) : mats[i].name = name /\ \A j \in 1..(i - 1) : mats[j].name /= name) - 1
    ELSE -1

\* "for mat_name, mat in mats.items(): if mat_name not in obj.data.materials: append"
RECURSIVE AppendMaterials(_, _)
AppendMaterials(mats, imap) ==
    IF imap = <<>> THEN mats
    ELSE LET mat_name == VariantName(Head(imap).k[1], Head(imap).k[2])
         IN  AppendMaterials(IF HasMaterial(mats, mat_name) THEN mats
                             ELSE Append(mats, [name |-> mat_name, image |-> Head(imap).v]),
                             Tail(imap))

\* mat_index_map = {name: obj.data.materials.find(name) for name in mats}
RECURSIVE MatIndexMap(_, _, _)
MatIndexMap(mats, imap, acc) ==
    IF imap = <<>> THEN acc
    ELSE LET mat_name == VariantName(Head(imap).k[1], Head(imap).k[2])
         IN  MatIndexMap(mats, Tail(imap), DictSet(acc, mat_name, FindMaterial(mats, mat_name)))

\* "if self.remap_model and image_map": materials for every cropped variant
RemapSetup ==
    /\ pc = "remap_setup"
    /\ IF props.remap_model /\ image_map /= <<>>
       THEN /\ materials' = AppendMaterials(materials, image_map)
            /\ mat_index_map' = MatIndexMap(materials', image_map, <<>>)
            /\ remap_i' = 1
            /\ pc' = "remap"
       ELSE /\ UNCHANGED <<materials, mat_index_map, remap_i>>
            /\ pc' = "fill"
    /\ UNCHANGED <<otherVars, inputVars, mesh, faces, global_variants, global_sizes, assignments, poolVars,
                   written>>

\* per-island placement: uv.x = (uv.x * ow - x0) / cw, uv.y = (uv.y * oh - y0) / ch
PlaceInCrop(uvs, ow, oh, cb) ==
    LET cw == cb[3] - cb[1]
        ch == cb[4] - cb[2]
    IN  [i \in 1..Len(uvs) |->
            <<RDiv(RSub(RMul(uvs[i][1], RInt(ow)), RInt(cb[1])), RInt(cw)),
              RDiv(RSub(RMul(uvs[i][2], RInt(oh)), RInt(cb[2])), RInt(ch))>>]

\* the rescale with the V axis turned over, as an image-space flip would
NormalizeFaceFlipV(uvs) ==
    LET us    == {uvs[i][1] : i \in 1..Len(uvs)}
        vs    == {uvs[i][2] : i \in 1..Len(uvs)}
        min_u == RMin(us)
        min_v == RMin(vs)
        du    == RSub(RMax(us), min_u)
        dv    == RSub(RMax(vs), min_v)
    IN  IF RLt(RInt(0), du) /\ RLt(RInt(0), dv)
        THEN [i \in 1..Len(uvs) |->
                 <<RDiv(RSub(uvs[i][1], min_u), du),
                   RSub(RInt(1), RDiv(RSub(uvs[i][2], min_v), dv))>>]
        ELSE uvs

\* per-face fill: rescale the face's own UV extent to [0,1] x [0,1]
NormalizeFace(uvs) ==
    LET us    == {uvs[i][1] : i \in 1..Len(uvs)}
        vs    == {uvs[i][2] : i \in 1..Len(uvs)}
        min_u == RMin(us)
        min_v == RMin(vs)
        du    == RSub(RMax(us), min_u)
        dv    == RSub(RMax(vs), min_v)
    IN  IF RLt(RInt(0), du) /\ RLt(RInt(0), dv)
        THEN [i \in 1..Len(uvs) |->
                 <<RDiv(RSub(uvs[i][1], min_u), du), RDiv(RSub(uvs[i][2], min_v), dv)>>]
        ELSE uvs

\* one iteration of "for face_idx, name, bounds in assignments"
RemapFace ==
    /\ pc = "remap"
    /\ remap_i <= Len(assignments)
    /\ LET face_idx == assignments[remap_i][1]
           name     == assignments[remap_i][2]
           bounds   == assignments[remap_i][3]
           vid      == VariantIdOf(global_variants, name, bounds)
           mat_name == VariantName(name, vid)
       IN  IF ~DictHas(mat_index_map, mat_name)
           THEN \* KeyError: the exception leaves execute
                /\ pc' = "error"
                /\ UNCHANGED <<faces, remap_i>>
           ELSE LET uvs == faces[face_idx].uvs
                    sz  == DictGet(global_sizes, name)
                    new == IF props.crop_per_border /\ DictHas(crop_bounds, <<name, vid>>)
                           THEN PlaceInCrop(uvs, sz[1], sz[2], DictGet(crop_bounds, <<name, vid>>))
                           ELSE NormalizeFace(uvs)
                IN  /\ faces' = [faces EXCEPT ![face_idx] =
                                    [material_index |-> DictGet(mat_index_map, mat_name),
                                     uvs |-> new]]
                    /\ remap_i' = remap_i + 1
                    /\ UNCHANGED pc
    /\ UNCHANGED <<otherVars, inputVars, mesh, materials, global_variants, global_sizes, assignments,
                   poolVars, mat_index_map, written>>

RemapDone ==
    /\ pc = "remap"
    /\ remap_i > Len(assignments)
    /\ pc' = "fill"
    /\ UNCHANGED <<otherVars, inputVars, mesh, faces, materials, global_variants, global_sizes, assignments,
                   poolVars, mat_index_map, remap_i, written>>

\* UVIslandFillOperator.execute on the faces S of one object
FillUVs(fs, S) ==
    IF S = {} THEN fs
    ELSE LET us    == UNION {{fs[f].uvs[i][1] : i \in 1..Len(fs[f].uvs)} : f \in S}
             vs    == UNION {{fs[f].uvs[i][2] : i \in 1..Len(fs[f].uvs)} : f \in S}
             min_u == RMin(us)
             min_v == RMin(vs)
             du    == RSub(RMax(us), min_u)
             dv    == RSub(RMax(vs), min_v)
         IN  IF du = RInt(0) \/ dv = RInt(0) THEN fs
             ELSE [f \in DOMAIN fs |->
                      IF f \in S
                      THEN [fs[f] EXCEPT !.uvs =
                               [i \in 1..Len(fs[f].uvs) |->
                                   <<RDiv(RSub(fs[f].uvs[i][1], min_u), du),
                                     RDiv(RSub(fs[f].uvs[i][2], min_v), dv)>>]]
                      ELSE fs[f]]

\* mesh.separate(type='MATERIAL'), textools_uv_fill on every part, join
RECURSIVE FillParts(_, _)
FillParts(fs, slots) ==
    IF slots = {} THEN fs
    ELSE LET m == CHOOSE x \in slots : TRUE
         IN  FillParts(FillUVs(fs, {f \in DOMAIN fs : fs[f].material_index = m}), slots \ {m})

\* "Fill UV islands", "Separate by material", "Fill and rejoin separated parts"
FillSeparateJoin ==
    /\ pc = "fill"
    /\ LET filled == FillUVs(faces, DOMAIN faces)
       IN  faces' = FillParts(filled, {filled[f].material_index : f \in DOMAIN filled})
    /\ pc' = "meta"
    /\ UNCHANGED <<otherVars, inputVars, mesh, materials, global_variants, global_sizes, assignments,
                   poolVars, mat_index_map, remap_i, written>>

\* the lines of the three per-variant listings, as (name, bounds, vid)
RECURSIVE VariantRows(_)
VariantRows(gv) ==
    IF gv = <<>> THEN <<>>
    ELSE LET name == Head(gv).k
             vs   == Head(gv).v
         IN  [i \in 1..Len(vs) |-> <<name, vs[i][1], vs[i][3]>>] \o VariantRows(Tail(gv))

\* "Save metadata files"
SaveMetadata ==
    /\ pc = "meta"
    /\ LET rows == VariantRows(global_variants)
       IN  written' =
               [uv_coordinates      |-> [i \in 1..Len(rows) |->
                                            <<rows[i][2], VariantName(rows[i][1], rows[i][3])>>],
                image_names         |-> [i \in 1..Len(rows) |-> VariantName(rows[i][1], rows[i][3])],
                image_names_to_crop |-> [i \in 1..Len(rows) |-> rows[i][1]],
                image_sizes         |-> [i \in 1..Len(global_sizes) |->
                                            <<global_sizes[i].k, global_sizes[i].v[1],
                                              global_sizes[i].v[2]>>]]
    /\ pc' = "done"
    /\ UNCHANGED <<otherVars, inputVars, mesh, faces, materials, global_variants, global_sizes, assignments,
                   poolVars, mat_index_map, remap_i>>

----------------------------------------------------------------------------
(* ExportUVInfoOperator.execute of export_uv_info.py (context.object only). *)
(* Its locals are kept in the variables of the same role: bounds_per_image *)
(* in global_variants, face_assignments in assignments, mat_lookup in      *)
(* mat_index_map.                                                          *)

NoLegacy == [unique |-> <<>>, name_data |-> <<>>, crop_data |-> <<>>, coord_data |-> <<>>,
             dimensions |-> <<>>, count |-> <<>>, bounds_per_image |-> <<>>,
             face_assignments |-> <<>>]

\* "for face in bm.faces" of export_uv_info.py
RECURSIVE LegacyFaces(_, _, _, _)
LegacyFaces(i, fs, mats, st) ==
    IF i = NumFaces THEN st
    ELSE LET name == get_image_from_face(fs[i], mats)
         IN  IF name = NoImage THEN LegacyFaces(i + 1, fs, mats, st)
             ELSE LET sz      == ImageSize(name)
                      bounds  == PixelBoundsLegacy(fs[i].uvs, sz[1], sz[2])
                      old     == IF DictHas(st.unique, name) THEN DictGet(st.unique, name) ELSE <<>>
                      new     == IF bounds \notin Range(old) THEN Append(old, bounds) ELSE old
                      variant == IndexOf(new, bounds)
                      bpi     == IF DictHas(st.bounds_per_image, name)
                                 THEN DictGet(st.bounds_per_image, name) ELSE <<>>
                      cnt     == IF DictHas(st.count, name) THEN DictGet(st.count, name) ELSE 0
                  IN  LegacyFaces(i + 1, fs, mats,
                          [unique     |-> DictSet(st.unique, name, new),
                           name_data  |-> Append(st.name_data, VariantName(name, variant)),
                           crop_data  |-> Append(st.crop_data, name),
                           coord_data |-> Append(st.coord_data,
                                                 <<bounds, VariantName(name, variant)>>),
                           dimensions |-> IF DictHas(st.dimensions, name) THEN st.dimensions
                                          ELSE DictSet(st.dimensions, name, sz),
                           count      |-> DictSet(st.count, name, cnt + 1),
                           bounds_per_image |->
                               DictSet(st.bounds_per_image, name,
                                       Append(bpi, <<bounds, ImagePath(name), variant>>)),
                           face_assignments |->
                               Append(st.face_assignments, <<i, name, variant, bounds>>)])

\* "for name, (w, h) in dimensions.items(): for _ in range(count[name])"
RECURSIVE LegacySizeLines(_, _)
LegacySizeLines(dimensions, count) ==
    IF dimensions = <<>> THEN <<>>
    ELSE LET name == Head(dimensions).k
             sz   == Head(dimensions).v
         IN  [i \in 1..DictGet(count, name) |-> <<name, sz[1], sz[2]>>]
                 \o LegacySizeLines(Tail(dimensions), count)

LegacyInit ==
    /\ pc = "legacy_export"
    /\ props \in [crop_images : BOOLEAN, crop_per_border : {FALSE}, remap_model : BOOLEAN]
    /\ mesh = {}
    /\ files \in {f \in [ImageNames -> {FileMissing} \cup {FileImage(ImageSize(n)[1], ImageSize(n)[2]) : n \in ImageNames}] :
                     \A n \in ImageNames : f[n].exists => f[n] = FileImage(ImageSize(n)[1], ImageSize(n)[2])}
    /\ faces0 \in [FaceIds -> [material_index : 0..(Len(InitialMaterials) - 1), uvs : UVLoops]]
    /\ faces = faces0
    /\ materials = InitialMaterials
    /\ global_variants = <<>>
    /\ global_sizes = <<>>
    /\ assignments = <<>>
    /\ tasks = <<>>
    /\ task_state = <<>>
    /\ results = <<>>
    /\ merged = 0
    /\ out_files = {}
    /\ image_map = <<>>
    /\ crop_bounds = <<>>
    /\ mat_index_map = <<>>
    /\ remap_i = 0
    /\ written = NoWritten

\* the face loop and the four files written right after it
LegacyExport ==
    /\ pc = "legacy_export"
    /\ LET st == LegacyFaces(0, faces, materials, NoLegacy)
       IN  /\ written' = [uv_coordinates      |-> st.coord_data,
                          image_names         |-> st.name_data,
                          image_names_to_crop |-> st.crop_data,
                          image_sizes         |-> LegacySizeLines(st.dimensions, st.count)]
           /\ global_variants' = st.bounds_per_image
           /\ global_sizes' = st.dimensions
           /\ assignments' = st.face_assignments
    /\ pc' = "legacy_crop"
    /\ UNCHANGED <<otherVars, inputVars, mesh, faces, materials,
                   poolVars, mat_index_map, remap_i>>

\* im.crop on the unclamped box and save; any exception is reported and skipped
RECURSIVE LegacyCropAll(_, _, _)
LegacyCropAll(rows, fl, acc) ==
    IF rows = <<>> THEN acc
    ELSE LET name     == Head(rows)[1]
             b        == Head(rows)[2]
             variant  == Head(rows)[3]
             new_name == VariantName(name, variant) \o ".png"
         IN  IF fl[name].exists /\ fl[name].readable /\ b[1] < b[3] /\ b[2] < b[4]
             THEN LegacyCropAll(Tail(rows), fl,
                      [image_map |-> DictSet(acc.image_map, <<name, variant>>, new_name),
                       out_files |-> acc.out_files \cup {new_name}])
             ELSE LegacyCropAll(Tail(rows), fl, acc)

\* "Crop images if needed"
LegacyCrop ==
    /\ pc = "legacy_crop"
    /\ IF props.crop_images
       THEN LET r == LegacyCropAll(VariantRows(global_variants), files,
                                   [image_map |-> <<>>, out_files |-> {}])
            IN  /\ image_map' = r.image_map
                /\ out_files' = r.out_files
       ELSE UNCHANGED <<image_map, out_files>>
    /\ pc' = "legacy_remap"
    /\ UNCHANGED <<otherVars, inputVars, mesh, faces, materials,
                   global_variants, global_sizes, assignments, tasks, task_state, results,
                   merged, crop_bounds, mat_index_map, remap_i, written>>

\* "for (face_idx, orig_name, variant, bounds) in face_assignments"
RECURSIVE LegacyRemapAll(_, _, _)
LegacyRemapAll(asg, imap, st) ==
    IF asg = <<>> THEN st
    ELSE LET face_idx == Head(asg)[1]
             mat_key  == VariantName(Head(asg)[2], Head(asg)[3])
         IN  IF ~DictHas(imap, <<Head(asg)[2], Head(asg)[3]>>)
             THEN LegacyRemapAll(Tail(asg), imap, st)
             ELSE LET mats == IF DictHas(st.mat_lookup, mat_key) THEN st.materials
                              ELSE Append(st.materials,
                                          [name |-> mat_key,
                                           image |-> DictGet(imap, <<Head(asg)[2], Head(asg)[3]>>)])
                      look == IF DictHas(st.mat_lookup, mat_key) THEN st.mat_lookup
                              ELSE DictSet(st.mat_lookup, mat_key, Len(mats) - 1)
                  IN  LegacyRemapAll(Tail(asg), imap,
                          [materials  |-> mats,
                           mat_lookup |-> look,
                           faces      |-> [st.faces EXCEPT ![face_idx] =
                                              [material_index |-> DictGet(look, mat_key),
                                               uvs |-> NormalizeFace(st.faces[face_idx].uvs)]]])

\* "Remap materials and fill UVs"
LegacyRemap ==
    /\ pc = "legacy_remap"
    /\ IF props.remap_model /\ props.crop_images
       THEN LET r == LegacyRemapAll(assignments, image_map,
                                    [materials |-> materials, mat_lookup |-> <<>>, faces |-> faces])
            IN  /\ faces' = r.faces
                /\ materials' = r.materials
                /\ mat_index_map' = r.mat_lookup
       ELSE UNCHANGED <<faces, materials, mat_index_map>>
    /\ pc' = "legacy_done"
    /\ UNCHANGED <<otherVars, inputVars, mesh, global_variants,
                   global_sizes, assignments, poolVars, remap_i, written>>

----------------------------------------------------------------------------
(* ProcessMultipleOperator.execute of export_uv_infoV1.py                  *)

\* what a file found by os.walk turns out to be:
\*   "other"            not an .obj/.fbx file
\*   "good"             imports, exports and cleans up without an exception
\*   "no_mesh"          the import leaves no selected mesh object
\*   "import_raises"    the import operator raises (bpy.ops reports an error)
\*   "pipeline_raises"  uv.export_uv_info raises, as in the remap loop of Spec
\*   "export_raises"    wm.obj_export raises
FileKinds == {"other", "good", "no_mesh", "import_raises", "pipeline_raises", "export_raises"}

BatchInit ==
    /\ pc = "batch_next"
    /\ walk \in SeqsUpTo(FileKinds, MaxFiles)
    /\ file_i = 1
    /\ attempted = {}
    /\ processed = {}

\* "if not fname.lower().endswith(('.obj', '.fbx')): continue"
SkipFile ==
    /\ pc = "batch_next"
    /\ file_i <= Len(walk)
    /\ walk[file_i] = "other"
    /\ file_i' = file_i + 1
    /\ UNCHANGED <<pc, walk, attempted, processed, convVars, cropVars, dedupVars, fillVars,
                   pipeVars, normVars>>

\* "Import", then "if not imported: continue"; no handler surrounds the call
ImportAsset ==
    /\ pc = "batch_next"
    /\ file_i <= Len(walk)
    /\ walk[file_i] /= "other"
    /\ attempted' = attempted \cup {file_i}
    /\ IF walk[file_i] = "import_raises"
       THEN pc' = "batch_aborted" /\ UNCHANGED file_i
       ELSE IF walk[file_i] = "no_mesh"
       THEN pc' = "batch_next" /\ file_i' = file_i + 1
       ELSE pc' = "batch_imported" /\ UNCHANGED file_i
    /\ UNCHANGED <<walk, processed, convVars, cropVars, dedupVars, fillVars, pipeVars, normVars>>

\* "Select and export UV info": bpy.ops.uv.export_uv_info(...)
RunExportUVInfo ==
    /\ pc = "batch_imported"
    /\ pc' = IF walk[file_i] = "pipeline_raises" THEN "batch_aborted" ELSE "batch_uv_done"
    /\ UNCHANGED <<batchVars, convVars, cropVars, dedupVars, fillVars, pipeVars, normVars>>

\* "Export fixed OBJ with vertex colors"
ExportFixedObj ==
    /\ pc = "batch_uv_done"
    /\ pc' = IF walk[file_i] = "export_raises" THEN "batch_aborted" ELSE "batch_exported"
    /\ UNCHANGED <<batchVars, convVars, cropVars, dedupVars, fillVars, pipeVars, normVars>>

\* "Delete imported and purge orphans", then the next file
DeleteImported ==
    /\ pc = "batch_exported"
    /\ processed' = processed \cup {file_i}
    /\ file_i' = file_i + 1
    /\ pc' = "batch_next"
    /\ UNCHANGED <<walk, attempted, convVars, cropVars, dedupVars, fillVars, pipeVars, normVars>>

\* "Batch processing complete."
FinishBatch ==
    /\ pc = "batch_next"
    /\ file_i > Len(walk)
    /\ pc' = "batch_finished"
    /\ UNCHANGED <<batchVars, convVars, cropVars, dedupVars, fillVars, pipeVars, normVars>>

----------------------------------------------------------------------------
(* The UV fill of one face: the per-face branch of the remap loop (the     *)
(* same statements in export_uv_infoV1.py and export_uv_info.py) and       *)
(* uv.textools_uv_fill run on an object that has this one face             *)

NormCoords == {Rat(-1, 4), RInt(0), Rat(1, 2), RInt(1)}
NoNorm     == [face |-> <<>>, fill |-> <<>>]

NormInit ==
    /\ pc = "norm_in"
    /\ norm_in \in [1..LoopLen -> NormCoords \X NormCoords]
    /\ norm_out = NoNorm

Renormalize ==
    /\ pc = "norm_in"
    /\ norm_out' = [face |-> NormalizeFace(norm_in),
                    fill |-> FillUVs([f \in {0} |-> [material_index |-> 0, uvs |-> norm_in]],
                                     {0})[0].uvs]
    /\ pc' = "norm_out"
    /\ UNCHANGED <<norm_in, convVars, cropVars, dedupVars, fillVars, pipeVars, batchVars>>

----------------------------------------------------------------------------
(* Specifications                                                          *)

ConvIdle  == uv_pt = <<RInt(0), RInt(0)>> /\ img_size = <<1, 1>> /\ px_bounds = NoBounds
CropIdle  == crop_args = NoCropArgs /\ crop_result = None
DedupIdle == pairs = <<>> /\ variant_ids = NoIds

ScanIdle  == face_i = 0 /\ visited = {} /\ stack = <<>> /\ group = <<>> /\ groups = <<>>
FillIdle  == mesh = {} /\ ScanIdle
BatchIdle == walk = <<>> /\ file_i = 0 /\ attempted = {} /\ processed = {}
NormIdle  == norm_in = <<>> /\ norm_out = NoNorm
PipeIdle  ==
    /\ props = [crop_images |-> FALSE, crop_per_border |-> FALSE, remap_model |-> FALSE]
    /\ files = [n \in ImageNames |-> FileMissing]
    /\ faces = <<>> /\ faces0 = <<>> /\ materials = <<>>
    /\ global_variants = <<>> /\ global_sizes = <<>> /\ assignments = <<>>
    /\ tasks = <<>> /\ task_state = <<>> /\ results = <<>> /\ merged = 0
    /\ out_files = {} /\ image_map = <<>> /\ crop_bounds = <<>>
    /\ mat_index_map = <<>> /\ remap_i = 0 /\ written = NoWritten

InitConv == ConvInit /\ CropIdle /\ DedupIdle /\ FillIdle /\ PipeIdle /\ BatchIdle /\ NormIdle
NextConv == Convert
SpecConv == InitConv /\ [][NextConv]_vars

InitCrop == CropInit /\ ConvIdle /\ DedupIdle /\ FillIdle /\ PipeIdle /\ BatchIdle /\ NormIdle
NextCrop == RunCropTask
SpecCrop == InitCrop /\ [][NextCrop]_vars

InitDedup == DedupInit /\ ConvIdle /\ CropIdle /\ FillIdle /\ PipeIdle /\ BatchIdle /\ NormIdle
NextDedup == RunDedup
SpecDedup == InitDedup /\ [][NextDedup]_vars

InitIsland == FillInit /\ ConvIdle /\ CropIdle /\ DedupIdle /\ PipeIdle /\ BatchIdle /\ NormIdle
NextIsland ==
    \/ SkipVisitedFace
    \/ StartGroup
    \/ PopFace
    \/ CloseGroup
    \/ FinishScan
SpecIsland == InitIsland /\ [][NextIsland]_vars

\* the grouping is straight-line code of the control thread: whenever a step
\* is possible, it is taken
InitIslandLive == FillInitLive /\ ConvIdle /\ CropIdle /\ DedupIdle /\ PipeIdle /\ BatchIdle /\ NormIdle
SpecIslandLive == InitIslandLive /\ [][NextIsland]_vars /\ WF_vars(NextIsland)

\* one run of the export operator of export_uv_infoV1.py
Init == PipeInit /\ ConvIdle /\ CropIdle /\ DedupIdle /\ ScanIdle /\ BatchIdle /\ NormIdle
Next ==
    \/ Gather
    \/ Deduplicate
    \/ SubmitTasks
    \/ StartTask
    \/ FinishTask
    \/ MergeResult
    \/ ClosePool
    \/ RemapSetup
    \/ RemapFace
    \/ RemapDone
    \/ FillSeparateJoin
    \/ SaveMetadata
Spec == Init /\ [][Next]_vars

\* one run of the export operator of export_uv_info.py
InitLegacy == LegacyInit /\ ConvIdle /\ CropIdle /\ DedupIdle /\ ScanIdle /\ BatchIdle /\ NormIdle
NextLegacy ==
    \/ LegacyExport
    \/ LegacyCrop
    \/ LegacyRemap
SpecLegacy == InitLegacy /\ [][NextLegacy]_vars

InitNorm == NormInit /\ ConvIdle /\ CropIdle /\ DedupIdle /\ FillIdle /\ PipeIdle /\ BatchIdle
NextNorm == Renormalize
SpecNorm == InitNorm /\ [][NextNorm]_vars

\* one run of the batch operator
InitBatch == BatchInit /\ ConvIdle /\ CropIdle /\ DedupIdle /\ FillIdle /\ PipeIdle /\ NormIdle
NextBatch ==
    \/ SkipFile
    \/ ImportAsset
    \/ RunExportUVInfo
    \/ ExportFixedObj
    \/ DeleteImported
    \/ FinishBatch
SpecBatch == InitBatch /\ [][NextBatch]_vars

----------------------------------------------------------------------------
(* Claims about the Coordinate Converter (SpecConv)                        *)

ScaledU == RMul(uv_pt[1], RInt(img_size[1]))
ScaledV == RMul(uv_pt[2], RInt(img_size[2]))

\* C10 as stated: for a single UV point (u, v) and dimensions (w, h) the
\* conversion yields (floor(u*w), h - ceil(v*h), ceil(u*w), h - floor(v*h)).
C10_FloorCeilBox ==
    pc = "conv_out" =>
        px_bounds.v1 = <<Floor(ScaledU), img_size[2] - Ceil(ScaledV),
                         Ceil(ScaledU), img_size[2] - Floor(ScaledV)>>

\* toward-zero rounding written with floor and ceil
TowardZero(r) == IF RLe(RInt(0), r) THEN Floor(r) ELSE Ceil(r)

\* C10 amended: for a single UV point both x components are u*w rounded
\* toward zero (floor for u >= 0); export_uv_infoV1.py reports both y
\* components as h minus v*h rounded toward zero, export_uv_info.py reports
\* both as h - v*h rounded toward zero.
C10_TruncatedBox ==
    pc = "conv_out" =>
        /\ px_bounds.v1 = <<TowardZero(ScaledU), img_size[2] - TowardZero(ScaledV),
                            TowardZero(ScaledU), img_size[2] - TowardZero(ScaledV)>>
        /\ px_bounds.legacy =
               <<TowardZero(ScaledU), TowardZero(RSub(RInt(img_size[2]), ScaledV)),
                 TowardZero(ScaledU), TowardZero(RSub(RInt(img_size[2]), ScaledV))>>

\* the point (1/4, 3/4) on a 3x3 image: u*w = 3/4 and v*h = 9/4 are not integers
C10_Witness ==
    /\ pc = "conv_out"
    /\ uv_pt = <<Rat(1, 4), Rat(3, 4)>>
    /\ img_size = <<3, 3>>
    /\ px_bounds.v1 = <<0, 1, 0, 1>>
    /\ px_bounds.legacy = <<0, 0, 0, 0>>

----------------------------------------------------------------------------
(* Claims about one crop task (SpecCrop)                                   *)

\* C3: a crop that succeeds reports a clamped box with 0 <= x0 < x1 <= w and
\* 0 <= y0 < y1 <= h; box (-5, -5, 10, 10) on an 8x8 image succeeds with
\* box (0, 0, 8, 8).
C3_ClampedInside ==
    pc = "crop_out" =>
        /\ crop_result /= None =>
               LET b == crop_result[4]
               IN  /\ 0 <= b[1] /\ b[1] < b[3] /\ b[3] <= crop_args.file.w
                   /\ 0 <= b[2] /\ b[2] < b[4] /\ b[4] <= crop_args.file.h
        /\ (crop_args.bounds = <<-5, -5, 10, 10>> /\ crop_args.file = FileImage(8, 8)) =>
               (crop_result /= None /\ crop_result[4] = <<0, 0, 8, 8>>)

C3_Witness ==
    /\ pc = "crop_out"
    /\ crop_args.bounds = <<-5, -5, 10, 10>>
    /\ crop_args.file = FileImage(8, 8)
    /\ crop_result /= None
    /\ crop_result[4] = <<0, 0, 8, 8>>

\* the box has no pixel in common with [0, w) x [0, h)
EntirelyOutside(bounds, w, h) ==
    bounds[1] >= w \/ bounds[2] >= h \/ bounds[3] <= 0 \/ bounds[4] <= 0

\* C4: cropping a box that lies entirely outside the image bounds yields a
\* failure result (None), so nothing is produced for the variant.
C4_OutsideFails ==
    (/\ pc = "crop_out"
     /\ crop_args.file.readable
     /\ EntirelyOutside(crop_args.bounds, crop_args.file.w, crop_args.file.h))
        => crop_result = None

----------------------------------------------------------------------------
(* Claims about the Variant Deduplicator (SpecDedup)                       *)

\* position of the first occurrence of pairs[i]
FirstOccurrence(i) ==
    CHOOSE j \in 1..i : pairs[j] = pairs[i] /\ \A k \in 1..(j - 1) : pairs[k] /= pairs[i]

\* number of distinct boxes of pairs[i]'s image seen up to that first occurrence
FirstSeenIndex(i) ==
    Cardinality({pairs[j][2] : j \in {k \in 1..FirstOccurrence(i) : pairs[k][1] = pairs[i][1]}})

BoxesOf(name) == {pairs[j][2] : j \in {k \in 1..Len(pairs) : pairs[k][1] = name}}

FirstSeenAssignment(ids) ==
    /\ Len(ids) = Len(pairs)
    /\ \A i \in 1..Len(pairs) : ids[i] = FirstSeenIndex(i)
    /\ \A name \in DedupNames :
           {ids[i] : i \in {k \in 1..Len(pairs) : pairs[k][1] = name}}
               = 1..Cardinality(BoxesOf(name))
    /\ \A i, j \in 1..Len(pairs) :
           pairs[i][1] = pairs[j][1] => (ids[i] = ids[j] <=> pairs[i][2] = pairs[j][2])

\* C1: every (image_name, box) pair gets the 1-based first-seen position of
\* its box among the distinct boxes of its image; the indices of an image
\* are exactly 1..n and distinct boxes have distinct indices.
C1_FirstSeenIndex ==
    pc = "dedup_out" =>
        /\ FirstSeenAssignment(variant_ids.v1)
        /\ FirstSeenAssignment(variant_ids.legacy)

\* a repeated box between two new ones on one image, and a second image
C1_Witness ==
    /\ pc = "dedup_out"
    /\ Len(pairs) = 3
    /\ pairs[1][1] = pairs[2][1] /\ pairs[1][2] /= pairs[2][2]
    /\ pairs[3] = pairs[1]
    /\ variant_ids.v1 = <<1, 2, 1>>
    /\ variant_ids.legacy = <<1, 2, 1>>

----------------------------------------------------------------------------
(* Claims about the Island Grouper (SpecIsland)                            *)

SharesEdge(f, g) == \E e \in mesh : f \in e /\ g \in e

\* the faces linked to f by a path of faces pairwise sharing an edge
RECURSIVE Linked(_)
Linked(S) ==
    LET T == S \cup {g \in MeshFaceIds : \E f \in S : SharesEdge(f, g)}
    IN  IF T = S THEN S ELSE Linked(T)

GroupsOf(f) == {i \in 1..Len(groups) : \E k \in 1..Len(groups[i]) : groups[i][k] = f}

\* C5: when the grouping is complete every face is in exactly one island,
\* once, and two faces are in the same island exactly when a path of faces
\* pairwise sharing an edge links them.
C5_ConnectedComponents ==
    pc = "fill_done" =>
        /\ \A f \in MeshFaceIds : Cardinality(GroupsOf(f)) = 1
        /\ \A i \in 1..Len(groups) : Cardinality(Range(groups[i])) = Len(groups[i])
        /\ \A f, g \in MeshFaceIds : (GroupsOf(f) = GroupsOf(g)) <=> (g \in Linked({f}))

\* faces 0 and 2 are linked only through face 1, face 3 is isolated
C5_Witness ==
    /\ pc = "fill_done"
    /\ mesh = {{0, 1}, {1, 2}}
    /\ Len(groups) >= 2
    /\ Range(groups[1]) = {0, 1, 2}
    /\ groups[2] = <<3>>

----------------------------------------------------------------------------
(* Claims about the export operator (Spec, SpecLegacy)                     *)

\* the variant of the k-th face assignment of export_uv_infoV1.py
AssignedKey(k) ==
    <<assignments[k][2], VariantIdOf(global_variants, assignments[k][2], assignments[k][3])>>

\* C6: a face whose variant has no successful crop keeps its material index
\* and UVs through the remap, and the remap goes on with the remaining faces
\* and completes: the run never ends in the remap loop.
C6_OmissionKeepsRunning ==
    /\ pc /= "error"
    /\ pc = "remap" =>
           \A k \in 1..(remap_i - 1) :
               ~DictHas(image_map, AssignedKey(k)) =>
                   faces[assignments[k][1]] = faces0[assignments[k][1]]

\* the boxes assigned to the faces of image n (the last component of an
\* assignment in both operators)
AssignedBoxes(n) ==
    {assignments[k][Len(assignments[k])] : k \in {j \in 1..Len(assignments) : assignments[j][2] = n}}

Finished == pc \in {"done", "legacy_done"}

\* the positions of image n in the per-variant listings
RowsOf(n) == {i \in 1..Len(written.image_names_to_crop) : written.image_names_to_crop[i] = n}

\* C8: the variant-names, source-image-names and bounding-box listings have
\* one entry per deduplicated variant, their i-th entries describe the same
\* variant, and the entries of an image appear in increasing variant index.
C8_AlignedPerVariant ==
    Finished =>
        /\ Len(written.image_names) = Len(written.image_names_to_crop)
        /\ Len(written.uv_coordinates) = Len(written.image_names_to_crop)
        /\ \A i \in 1..Len(written.image_names) :
               written.uv_coordinates[i][2] = written.image_names[i]
        /\ \A n \in ImageNames :
               LET rows == SortedSeq(RowsOf(n))
               IN  /\ Len(rows) = Cardinality(AssignedBoxes(n))
                   /\ \A r \in 1..Len(rows) :
                          written.image_names[rows[r]] = VariantName(n, r)
                   /\ {written.uv_coordinates[i][1] : i \in RowsOf(n)} = AssignedBoxes(n)

\* C9: the image-sizes listing holds (image_name, width, height) once per
\* deduplicated variant of every image, so it is as long as the variant
\* listings.
C9_SizesPerVariant ==
    Finished =>
        /\ \A n \in ImageNames :
               /\ Cardinality({i \in 1..Len(written.image_sizes) : written.image_sizes[i][1] = n})
                      = Cardinality(AssignedBoxes(n))
               /\ \A i \in 1..Len(written.image_sizes) :
                      written.image_sizes[i][1] = n =>
                          written.image_sizes[i] = <<n, ImageSize(n)[1], ImageSize(n)[2]>>
        /\ Len(written.image_sizes) = Len(written.image_names)

----------------------------------------------------------------------------
(* Claims about the batch operator (SpecBatch)                             *)

Assets == {i \in 1..Len(walk) : walk[i] /= "other"}

\* C7: a failure while processing one asset aborts only that asset: when the
\* batch operator returns, every asset found by the walk was attempted, the
\* assets that do not fail were processed to completion, and the batch
\* finished.
C7_BatchIsolation ==
    pc \in {"batch_finished", "batch_aborted"} =>
        /\ pc = "batch_finished"
        /\ \A i \in Assets : i \in attempted
        /\ \A i \in Assets : walk[i] = "good" => i \in processed

----------------------------------------------------------------------------
(* Claims about the remap of export_uv_infoV1.py (Spec)                    *)

\* the face shares no edge with another face
Isolated(f) == \A e \in mesh : f \notin e

\* the positions of face f in the assignments
AsgOf(f) == {k \in 1..Len(assignments) : assignments[k][1] = f}

\* the remap loop has rewritten the face of the k-th assignment
Remapped(k) ==
    \/ pc = "remap" /\ k < remap_i
    \/ pc = "fill" /\ props.remap_model /\ image_map /= <<>>

UnitQuad == Quad(RInt(0), RInt(0), RInt(1), RInt(1))
E2EQuad  == Quad(Rat(0, 4), Rat(0, 4), Rat(2, 4), Rat(1, 4))

\* the face is the quad of the end-to-end example, textured with the
\* 1024x128 image, and is a crop unit of its own
E2EFace(f) ==
    /\ faces0[f].uvs = E2EQuad
    /\ get_image_from_face(faces0[f], InitialMaterials) = "b"
    /\ Isolated(f)

\* C11: a quad face with UVs {(0,0),(0.5,0),(0.5,0.25),(0,0.25)} on a
\* 1024x128 image gets the box (0, 96, 512, 128), its crop is the 512x32
\* region of that box, and once the remap loop has rewritten the face its
\* UVs are exactly {(0,0),(1,0),(1,1),(0,1)}.
C11_EndToEnd ==
    \A f \in FaceIds :
        (E2EFace(f) /\ pc \notin {"gather", "error"}) =>
            /\ AsgOf(f) /= {}
            /\ \A k \in AsgOf(f) :
                   /\ assignments[k] = <<f, "b", <<0, 96, 512, 128>>>>
                   /\ (pc \notin {"dedup", "crop", "pool"} /\ DictHas(crop_bounds, AssignedKey(k))) =>
                          DictGet(crop_bounds, AssignedKey(k)) = <<0, 96, 512, 128>>
                   /\ (pc \notin {"dedup", "crop", "pool"}
                          /\ (props.crop_images \/ props.crop_per_border)
                          /\ files["b"].exists) =>
                          DictHas(crop_bounds, AssignedKey(k))
                   /\ Remapped(k) => faces[f].uvs = UnitQuad

\* the same statement restricted to "crop per face" runs (lines 107-120, 218-226)
PerFaceEndToEnd == props.crop_per_border \/ C11_EndToEnd

----------------------------------------------------------------------------
(* Claims about the UV fill of one face (SpecNorm)                         *)

NormUs == {norm_in[i][1] : i \in 1..Len(norm_in)}
NormVs == {norm_in[i][2] : i \in 1..Len(norm_in)}

SpansUnitSquare ==
    /\ RMin(NormUs) = RInt(0) /\ RMax(NormUs) = RInt(1)
    /\ RMin(NormVs) = RInt(0) /\ RMax(NormVs) = RInt(1)

ZeroSpan == RMin(NormUs) = RMax(NormUs) \/ RMin(NormVs) = RMax(NormVs)

\* C12: re-normalizing a face whose UVs already span exactly [0,1]x[0,1]
\* leaves every UV unchanged, and a face whose U span or V span is zero is
\* left unchanged; this holds of the per-face branch of the remap loop and
\* of the fill operator.
C12_RenormalizeIdempotent ==
    (pc = "norm_out" /\ (SpansUnitSquare \/ ZeroSpan)) =>
        /\ norm_out.face = norm_in
        /\ norm_out.fill = norm_in

\* a loop on the unit square with one point inside an edge
C12_Witness ==
    /\ pc = "norm_out"
    /\ SpansUnitSquare
    /\ \E i \in 1..Len(norm_in) : norm_in[i][1] = Rat(1, 2)
    /\ norm_out.face = norm_in
    /\ norm_out.fill = norm_in

\* a loop on a vertical line: the U span is zero, the V span is not
NormZeroSpanReached ==
    /\ pc = "norm_out"
    /\ RMin(NormUs) = RMax(NormUs)
    /\ RMin(NormVs) /= RMax(NormVs)
    /\ norm_out.face = norm_in

----------------------------------------------------------------------------
(* Claims about the per-island remap of export_uv_infoV1.py (Spec)         *)

\* UV (u, v) on an image of ow x oh pixels points at the pixel
\* (u * ow, oh - v * oh) counted from the top left corner; its position in
\* the raster cropped at cb = (x0, y0, x1, y1), again as a UV pair
PositionInCrop(uv, ow, oh, cb) ==
    LET px == RMul(uv[1], RInt(ow))
        py == RSub(RInt(oh), RMul(uv[2], RInt(oh)))
    IN  <<RDiv(RSub(px, RInt(cb[1])), RInt(cb[3] - cb[1])),
          RSub(RInt(1), RDiv(RSub(py, RInt(cb[2])), RInt(cb[4] - cb[2])))>>

InUnit(r) == RLe(RInt(0), r) /\ RLe(r, RInt(1))

\* the k-th assignment was rewritten by the per-island branch
PlacedInCrop(k) ==
    /\ props.crop_per_border
    /\ Remapped(k)
    /\ DictHas(crop_bounds, AssignedKey(k))

\* C13: in per-island mode every UV point of a member face is rewritten to
\* the normalized position, inside the cropped raster, of the source pixel
\* it pointed at; when the island's box needed no clamping every rewritten
\* UV component lies in [0,1].
C13_IslandPlacement ==
    \A k \in 1..Len(assignments) :
        PlacedInCrop(k) =>
            LET f   == assignments[k][1]
                sz  == DictGet(global_sizes, assignments[k][2])
                cb  == DictGet(crop_bounds, AssignedKey(k))
                old == faces0[f].uvs
                new == faces[f].uvs
            IN  /\ \A i \in 1..Len(old) : new[i] = PositionInCrop(old[i], sz[1], sz[2], cb)
                /\ cb = assignments[k][3] =>
                       \A i \in 1..Len(new) : InUnit(new[i][1]) /\ InUnit(new[i][2])

----------------------------------------------------------------------------
(* Claims comparing "crop per UV island" with "crop per face" (Spec)       *)

\* what the "crop per face" branch gathers from the same mesh
PerFaceGather == GatherFaces(0, faces0, InitialMaterials, NoGather)

\* the FaceAssignment, the variants and the crop tasks of a run in which
\* every face is an island of its own are those of "crop per face"
SingletonSameGather ==
    (props.crop_per_border /\ mesh = {} /\ pc \notin {"gather", "error"}) =>
        /\ assignments = PerFaceGather.asg
        /\ global_sizes = PerFaceGather.sizes
        /\ global_variants =
               (IF pc = "dedup" THEN PerFaceGather.gv ELSE DedupVariants(PerFaceGather.gv))
        /\ pc \notin {"dedup", "crop"} => tasks = TaskList(DedupVariants(PerFaceGather.gv))

\* the face of the k-th assignment after its remap is what the per-face
\* branch makes of it: the material of its variant, UVs rescaled to the
\* face's own extent
SingletonSameRemap ==
    \A k \in 1..Len(assignments) :
        (props.crop_per_border /\ Isolated(assignments[k][1]) /\ Remapped(k)) =>
            LET f == assignments[k][1]
            IN  /\ faces[f].material_index =
                       FindMaterial(materials, VariantName(AssignedKey(k)[1], AssignedKey(k)[2]))
                /\ faces[f].uvs = NormalizeFace(faces0[f].uvs)

\* C14: a single isolated face processed in per-island mode is treated as
\* the same face in per-face mode: same FaceAssignment (image name, box),
\* same variant and crop, same material and same UVs after remap.
C14_SingletonAsPerFace == SingletonSameGather /\ SingletonSameRemap

----------------------------------------------------------------------------
(* Claims about the crop stage of the export operator (Spec, SpecLegacy)   *)

\* the with-block of the thread pool has been left
PoolClosed == pc \in {"remap_setup", "remap", "fill", "meta", "done", "error"} /\ tasks /= <<>>

TaskKey(i) == <<tasks[i][1], tasks[i][3]>>

\* the rows (name, box, variant) export_uv_info.py crops, one by one
LegacyRows == VariantRows(global_variants)

\* C15: a crop task whose source file is missing returns the failure result
\* and its variant gets no entry in image_map or crop_bounds, while every
\* other crop task of the run has its own result merged: the output path
\* named after its variant and its clamped box.
C15_MissingSourceOmitted ==
    /\ pc = "pool" =>
           \A i \in 1..Len(tasks) :
               (task_state[i] = "done" /\ ~files[tasks[i][1]].exists) => results[i] = None
    /\ PoolClosed =>
           \A i \in 1..Len(tasks) :
               IF files[tasks[i][1]].exists
               THEN /\ DictHas(image_map, TaskKey(i)) /\ DictHas(crop_bounds, TaskKey(i))
                    /\ DictGet(image_map, TaskKey(i))
                           = VariantName(tasks[i][1], tasks[i][3]) \o ".png"
                    /\ DictGet(crop_bounds, TaskKey(i))
                           = ClampBox(tasks[i][4], ImageSize(tasks[i][1])[1],
                                      ImageSize(tasks[i][1])[2])
               ELSE /\ results[i] = None
                    /\ ~DictHas(image_map, TaskKey(i))
                    /\ ~DictHas(crop_bounds, TaskKey(i))
    /\ (pc \in {"legacy_remap", "legacy_done"} /\ props.crop_images) =>
           \A i \in 1..Len(LegacyRows) :
               LET key == <<LegacyRows[i][1], LegacyRows[i][3]>>
               IN  IF files[LegacyRows[i][1]].exists
                   THEN /\ DictHas(image_map, key)
                        /\ DictGet(image_map, key)
                               = VariantName(LegacyRows[i][1], LegacyRows[i][3]) \o ".png"
                   ELSE ~DictHas(image_map, key)

\* the first task reads a missing file, the second one an existing file
C15_Witness ==
    /\ pc = "remap_setup"
    /\ Len(tasks) = 2
    /\ ~files[tasks[1][1]].exists
    /\ files[tasks[2][1]].exists
    /\ results[1] = None
    /\ Len(image_map) = 1
    /\ image_map[1].k = TaskKey(2)
    /\ crop_bounds[1].k = TaskKey(2)

\* the same case in export_uv_info.py
LegacyMissingReached ==
    /\ pc = "legacy_remap"
    /\ props.crop_images
    /\ \E i \in 1..Len(LegacyRows) : ~files[LegacyRows[i][1]].exists
    /\ Len(image_map) = 1

\* image_map and crop_bounds as the merge loop builds them from the first n
\* results, in task order
RECURSIVE MergeOf(_, _)
MergeOf(rs, n) ==
    IF n = 0 THEN [image_map |-> <<>>, crop_bounds |-> <<>>]
    ELSE LET m == MergeOf(rs, n - 1)
             r == rs[n]
         IN  IF r = None THEN m
             ELSE [image_map   |-> DictSet(m.image_map, <<r[1], r[2]>>, r[3]),
                   crop_bounds |-> DictSet(m.crop_bounds, <<r[1], r[2]>>, r[4])]

AllTasksDone == \A i \in 1..Len(tasks) : task_state[i] = "done"

\* C16: crop workers never write image_map or crop_bounds, and the control
\* thread writes the first entry of image_map and crop_bounds only after
\* every crop task dispatched to the pool has finished.
C16_MergeAfterPool ==
    /\ Len(image_map) <= merged /\ Len(crop_bounds) <= merged
    /\ (pc = "pool" /\ (image_map /= <<>> \/ crop_bounds /= <<>>)) => AllTasksDone

\* what does hold: crop workers never write image_map or crop_bounds; the
\* two tables always hold exactly the results the control thread has
\* consumed, in task order, and a result is consumed only after its own task
\* has finished
MergeInTaskOrder ==
    (pc \in {"pool", "remap_setup"}) =>
        /\ image_map = MergeOf(results, merged).image_map
        /\ crop_bounds = MergeOf(results, merged).crop_bounds
        /\ \A i \in 1..merged : task_state[i] = "done"

\* the first result is in the tables while the second task has not finished
PartialMergeReached ==
    /\ pc = "pool"
    /\ Len(tasks) = 2
    /\ merged = 1
    /\ Len(image_map) = 1 /\ Len(crop_bounds) = 1
    /\ task_state[2] \in {"queued", "running"}

\* the file crop task i writes when it succeeds
OutputName(i) == VariantName(tasks[i][1], tasks[i][3]) \o ".png"

\* what crop task i returns, whenever it runs
ResultOf(i) == crop_task(tasks[i][1], files[tasks[i][1]], tasks[i][3], tasks[i][4])

\* C17: no two crop tasks of a run have the same (image_name,
\* variant_index), so no two tasks, running together or not, write the same
\* output file name, and when the pool is closed image_map and crop_bounds
\* are the merge of the tasks' results in task order, whatever the
\* interleaving of the workers was.
C17_DistinctTasks ==
    /\ \A i, j \in 1..Len(tasks) :
           i /= j => (TaskKey(i) /= TaskKey(j) /\ OutputName(i) /= OutputName(j))
    /\ PoolClosed =>
           /\ image_map = MergeOf([i \in 1..Len(tasks) |-> ResultOf(i)], Len(tasks)).image_map
           /\ crop_bounds = MergeOf([i \in 1..Len(tasks) |-> ResultOf(i)], Len(tasks)).crop_bounds

\* two tasks cropping the same source image run at the same time
C17_Witness ==
    /\ pc = "pool"
    /\ Len(tasks) = 2
    /\ tasks[1][1] = tasks[2][1]
    /\ files[tasks[1][1]].exists
    /\ task_state[1] = "running" /\ task_state[2] = "running"
    /\ OutputName(1) /= OutputName(2)

\* the second task finished first and both results are merged
OutOfOrderFinishReached ==
    /\ pc = "remap_setup"
    /\ Len(tasks) = 2
    /\ Len(image_map) = 2
    /\ image_map[1].k = TaskKey(1)

----------------------------------------------------------------------------
(* Claims about the image of an island (Spec)                              *)

\* the islands of the mesh, each in traversal order
Islands == FloodGroups(mesh, NumFaces, 0, {}, <<>>)

IslandOf(f) == Islands[CHOOSE i \in 1..Len(Islands) : f \in Range(Islands[i])]

\* the image of the first face of the island that resolves one
RECURSIVE FirstImage(_)
FirstImage(grp) ==
    IF grp = <<>> THEN NoImage
    ELSE LET im == get_image_from_face(faces0[Head(grp)], InitialMaterials)
         IN  IF im /= NoImage THEN im ELSE FirstImage(Tail(grp))

\* the scaled UV points the island scan collects
IslandCoords(grp) ==
    ScanGroup(grp, faces0, InitialMaterials,
              [img |-> NoImage, h |-> 0, sizes |-> <<>>, coords |-> <<>>]).coords

\* C18: an island is bound to the image of its first member face, in
\* traversal order, that resolves an image: the faces of the island are
\* assigned that image name, its path is the source of the island's crop
\* task, and its height is the one the bounding box is flipped with.
C18_FirstImageWins ==
    (props.crop_per_border /\ pc \notin {"gather", "error"}) =>
        \A k \in 1..Len(assignments) :
            LET grp   == IslandOf(assignments[k][1])
                first == FirstImage(grp)
            IN  /\ assignments[k][2] = first
                /\ assignments[k][3] = BoundsOfCoords(IslandCoords(grp), ImageSize(first)[2])
                /\ \E i \in 1..Len(DictGet(global_variants, assignments[k][2])) :
                       LET v == DictGet(global_variants, assignments[k][2])[i]
                       IN  v[1] = assignments[k][3] /\ v[2] = ImagePath(first)

----------------------------------------------------------------------------
(* Claims about the materials of the remap (Spec, SpecLegacy)              *)

\* the assignments whose face the remap has given a material, each with its
\* variant key: in export_uv_info.py the variant is part of the assignment
\* and a face without a crop is passed over
Bound ==
    IF pc = "legacy_done"
    THEN {k \in 1..Len(assignments) :
              /\ props.remap_model /\ props.crop_images
              /\ DictHas(image_map, <<assignments[k][2], assignments[k][3]>>)}
    ELSE {k \in 1..Len(assignments) : Remapped(k)}

KeyOf(k) ==
    IF pc = "legacy_done" THEN <<assignments[k][2], assignments[k][3]>> ELSE AssignedKey(k)

SlotsNamed(name) == {i \in 1..Len(materials) : materials[i].name = name}

\* C19: in the remap of one asset all faces assigned the same (image_name,
\* variant_index) receive the same material index, faces assigned different
\* variant keys receive different materials, and one material, named after
\* the variant and showing its crop, exists per variant key however many
\* faces use it.
C19_OneMaterialPerVariant ==
    /\ \A k1, k2 \in Bound :
           (KeyOf(k1) = KeyOf(k2))
               <=> (faces[assignments[k1][1]].material_index
                        = faces[assignments[k2][1]].material_index)
    /\ \A k \in Bound :
           LET slot == faces[assignments[k][1]].material_index + 1
               name == VariantName(KeyOf(k)[1], KeyOf(k)[2])
           IN  /\ slot \in 1..Len(materials)
               /\ materials[slot].name = name
               /\ materials[slot].image = name \o ".png"
               /\ SlotsNamed(name) = {slot}

\* both faces use the same variant and share the one material made for it
C19_Witness ==
    /\ pc = "fill"
    /\ Bound = {1, 2}
    /\ KeyOf(1) = KeyOf(2)
    /\ faces[0].material_index = faces[1].material_index
    /\ faces[0].material_index >= Len(InitialMaterials)
    /\ Len(materials) = Len(InitialMaterials) + 1

\* two faces with different variants of the same image, two materials
TwoVariantMaterialsReached ==
    /\ pc \in {"fill", "legacy_done"}
    /\ Bound = {1, 2}
    /\ KeyOf(1) /= KeyOf(2)
    /\ KeyOf(1)[1] = KeyOf(2)[1]
    /\ Len(materials) = Len(InitialMaterials) + 2

----------------------------------------------------------------------------
(* Claims about the termination of the Island Grouper (SpecIslandLive)     *)

\* how often face f occurs in sequence s
Occurrences(s, f) == Cardinality({i \in 1..Len(s) : s[i] = f})

RECURSIVE SumOccurrences(_, _)
SumOccurrences(gs, f) ==
    IF gs = <<>> THEN 0 ELSE Occurrences(Head(gs), f) + SumOccurrences(Tail(gs), f)

\* no face was added twice, to the completed groups and the open one together
NoFaceAddedTwice ==
    \A f \in MeshFaceIds :
        SumOccurrences(groups, f) + (IF pc = "fill_pop" THEN Occurrences(group, f) ELSE 0) <= 1

\* C20: the stack-based flood fill terminates on every finite mesh, also
\* when the face adjacency has cycles or an edge is shared by more than two
\* faces, and never adds a face to an island group twice.
C20_FloodFillTerminates == <>(pc = "fill_done" /\ NoFaceAddedTwice)

\* the grouping has ended on a mesh with the cycle 0-1-2 and an edge shared
\* by three or more faces
C20_Witness ==
    /\ pc = "fill_done"
    /\ {{0, 1}, {1, 2}, {0, 2}} \subseteq mesh
    /\ \E e \in mesh : Cardinality(e) >= 3
    /\ \A f \in MeshFaceIds : SumOccurrences(groups, f) = 1

----------------------------------------------------------------------------
(* Claims about the mesh when nothing is remapped (Spec, SpecLegacy)       *)

\* the remap branch of export_uv_infoV1.py is not entered
NoRemap == ~(props.remap_model /\ image_map /= <<>>)

\* the run of export_uv_infoV1.py is past "Fill and rejoin separated parts"
PastFill == pc \in {"meta", "done"}

\* every face has the material index it had when the operator was invoked
MaterialIndexKept == \A f \in DOMAIN faces : faces[f].material_index = faces0[f].material_index

\* every face has the UV loop it had when the operator was invoked
UVsKept == \A f \in DOMAIN faces : faces[f].uvs = faces0[f].uvs

\* C21: when remapping is not enabled, or no crop succeeded, a run of the
\* export operator leaves every face's UV coordinates and material index
\* unchanged; only the metadata files and the cropped images are produced.
C21_NoRemapLeavesMesh ==
    (PastFill /\ NoRemap) => (UVsKept /\ MaterialIndexKept /\ materials = InitialMaterials)

\* the part of C21 that export_uv_infoV1.py keeps: material indices and slots
NoRemapKeepsMaterials ==
    (PastFill /\ NoRemap) => (MaterialIndexKept /\ materials = InitialMaterials)

\* export_uv_info.py, where the UV fill is inside the remap loop, keeps all
\* of it
LegacyNoRemapLeavesMesh ==
    (pc = "legacy_done" /\ (~(props.remap_model /\ props.crop_images) \/ image_map = <<>>))
        => (UVsKept /\ MaterialIndexKept /\ materials = InitialMaterials)

\* a run with remapping off that ended with a face's UVs rewritten
NoRemapRewriteReached ==
    /\ pc = "done"
    /\ ~props.remap_model
    /\ ~UVsKept

\* a finished run of export_uv_info.py with remapping off
LegacyNoRemapReached ==
    /\ pc = "legacy_done"
    /\ ~props.remap_model
    /\ props.crop_images
    /\ image_map /= <<>>

====
